---- MODULE Spec2Model ----
(***************************************************************************)
(* Model of reviewstats: reviewers.py (process_patchset and the report     *)
(* built by main) and the connection loop of utils.get_changes.            *)
(***************************************************************************)
EXTENDS Integers, Sequences, FiniteSets, TLC

(***************************************************************************)
(* Bounds of the model.                                                    *)
(***************************************************************************)
MaxTime == 2
MaxVotes == 2
MaxPages == 1
MaxCalls == 2
CutOff == 1

(***************************************************************************)
(* Usernames are strings; a string is the sequence of its character codes  *)
(* so that str.lower() can be computed.                                    *)
(***************************************************************************)
alice == <<97, 108>>
bob == <<98, 111>>
unknown == <<117, 110, 107, 110, 111, 119, 110>>
jenkins == <<106, 101, 110, 107, 105, 110, 115>>
smokestack == <<115, 109, 111, 107, 101, 115, 116, 97, 99, 107>>
Jenkins == <<74, 101, 110, 107, 105, 110, 115>>
SmokeStack == <<83, 109, 111, 107, 101, 83, 116, 97, 99, 107>>

\* str.lower(): 'A'..'Z' (65..90) map to 'a'..'z'
lower(s) == [i \in 1..Len(s) |-> IF s[i] >= 65 /\ s[i] <= 90 THEN s[i] + 32 ELSE s[i]]

\* int(review['value']) on the decimal strings gerrit emits
int(s) ==
    CASE s = "-2" -> -2
      [] s = "-1" -> -1
      [] s = "0" -> 0
      [] s = "1" -> 1
      [] s = "2" -> 2

max(a, b) == IF a >= b THEN a ELSE b

\* the keys of a new entry's 'votes' dict
VoteKeys == {"-2", "-1", "1", "2"}

\* review['by'].get('username', 'unknown'); a 'by' dict without the key is NoUsername
NoUsername == [email |-> "none"]
Username(review) ==
    IF "username" \in DOMAIN review.by THEN review.by.username ELSE unknown

\* lines 38 and 56: only code reviews count
IsCodeReview_NotApproved(review) == review.type # "APRV"
IsCodeReview(review) == review.type = "CRVW"

\* line 53: the review was granted before the cut-off
BeforeCutoff_OffByOne(review, ts) == review.grantedOn <= ts
BeforeCutoff(review, ts) == review.grantedOn < ts

(***************************************************************************)
(* process_patchset, first loop: the latest core-team votes.               *)
(***************************************************************************)
RECURSIVE CoreVotes(_, _, _)
CoreVotes(project, approvals, acc) ==
    IF approvals = <<>> THEN acc
    ELSE LET review == Head(approvals)
             rest == Tail(approvals)
         IN  IF ~IsCodeReview(review) THEN CoreVotes(project, rest, acc)
             ELSE IF Username(review) \notin project.core_team
                  THEN CoreVotes(project, rest, acc)
             ELSE IF int(review.value) > 0
                  THEN CoreVotes(project, rest,
                           [acc EXCEPT !.pos = max(acc.pos, review.grantedOn)])
                  ELSE CoreVotes(project, rest,
                           [acc EXCEPT !.neg = max(acc.neg, review.grantedOn)])

\* reviewers.setdefault(reviewer, {...}) followed by setdefault('disagreements', 0)
NewEntry == [votes |-> [k \in VoteKeys |-> 0], total |-> 0, disagreements |-> 0]

SetDefault_Overwrite(reviewers, reviewer) ==
    [r \in DOMAIN reviewers \cup {reviewer} |->
        IF r = reviewer THEN NewEntry ELSE reviewers[r]]
SetDefault(reviewers, reviewer) ==
    IF reviewer \in DOMAIN reviewers THEN reviewers
    ELSE [r \in DOMAIN reviewers \cup {reviewer} |->
             IF r = reviewer THEN NewEntry ELSE reviewers[r]]

\* lines 66-67: votes[value] = cur + 1
AddVote_Lost(votes, value) == votes
AddVote(votes, value) == [votes EXCEPT ![value] = @ + 1]

Disagree_NotStrict(review, core) ==
    LET a == IF review.value \in {"1", "2"} /\ review.grantedOn <= core.neg THEN 1 ELSE 0
        b == IF review.value \in {"-1", "-2"} /\ review.grantedOn <= core.pos THEN 1 ELSE 0
    IN  a + b
Disagree_After(review, core) ==
    LET a == IF review.value \in {"1", "2"} /\ review.grantedOn > core.neg THEN 1 ELSE 0
        b == IF review.value \in {"-1", "-2"} /\ review.grantedOn > core.pos THEN 1 ELSE 0
    IN  a + b
\* lines 68-79: the two disagreement tests on one counted review
Disagree(review, core) ==
    LET a == IF review.value \in {"1", "2"} /\ review.grantedOn < core.neg THEN 1 ELSE 0
        b == IF review.value \in {"-1", "-2"} /\ review.grantedOn < core.pos THEN 1 ELSE 0
    IN  a + b

(***************************************************************************)
(* process_patchset, second loop.  The result is the reviewers dict and    *)
(* whether a KeyError left the loop early (line 66, after line 65 has      *)
(* already counted the review in 'total').                                 *)
(***************************************************************************)
RECURSIVE Tally(_, _, _, _)
Tally(approvals, reviewers, core, ts) ==
    IF approvals = <<>> THEN [reviewers |-> reviewers, raised |-> FALSE]
    ELSE LET review == Head(approvals)
             rest == Tail(approvals)
         IN  IF BeforeCutoff(review, ts) THEN Tally(rest, reviewers, core, ts)
             ELSE IF ~IsCodeReview(review) THEN Tally(rest, reviewers, core, ts)
             ELSE LET reviewer == Username(review)
                      r1 == SetDefault(reviewers, reviewer)
                      r2 == [r1 EXCEPT ![reviewer].total = @ + 1]
                  IN  IF review.value \notin DOMAIN r2[reviewer].votes
                      THEN [reviewers |-> r2, raised |-> TRUE]
                      ELSE LET r3 == [r2 EXCEPT ![reviewer].votes = AddVote(@, review.value)]
                               r4 == [r3 EXCEPT ![reviewer].disagreements =
                                                    @ + Disagree(review, core)]
                           IN  Tally(rest, r4, core, ts)

\* patchset.get('approvals', [])
Approvals(patchset) ==
    IF "approvals" \in DOMAIN patchset THEN patchset.approvals ELSE <<>>

process_patchset(project, patchset, reviewers, ts) ==
    LET core == CoreVotes(project, Approvals(patchset), [neg |-> 0, pos |-> 0])
    IN  Tally(Approvals(patchset), reviewers, core, ts)

(***************************************************************************)
(* The report of main (lines 120-153).                                     *)
(***************************************************************************)
ExcludedNames == {jenkins, smokestack}

Kept_CaseSensitive(reviewers) == {k \in DOMAIN reviewers : k \notin ExcludedNames}
\* line 120-121: the keys kept by the list comprehension
Kept(reviewers) == {k \in DOMAIN reviewers : lower(k) \notin ExcludedNames}

\* line 122: sort(reverse=True, key=total) over the dict's iteration order, which is
\* arbitrary: any order of the kept keys with non-increasing totals can result
Sorted(reviewers) ==
    LET keys == Kept(reviewers)
        n == Cardinality(keys)
    IN  {o \in [1..n -> keys] :
            /\ \A i, j \in 1..n : i # j => o[i] # o[j]
            /\ \A i \in 1..(n - 1) : reviewers[o[i]].total >= reviewers[o[i + 1]].total}

\* float division: the quotient as a fraction, or ZeroDivisionError
ZeroDivisionError == [error |-> "ZeroDivisionError"]
FloatDiv(a, b) == IF b = 0 THEN ZeroDivisionError ELSE [num |-> a, den |-> b]
Times100(q) == IF q = ZeroDivisionError THEN q ELSE [num |-> q.num * 100, den |-> q.den]
Zero == [num |-> 0, den |-> 1]

\* lines 144-146
Ratio(k) ==
    LET plus == k.votes["2"] + k.votes["1"]
        minus == k.votes["-2"] + k.votes["-1"]
    IN  Times100(FloatDiv(plus, plus + minus))

\* line 150
DRatio(k) ==
    LET plus == k.votes["2"] + k.votes["1"]
    IN  IF plus # 0 THEN Times100(FloatDiv(k.disagreements, plus)) ELSE Zero

\* lines 138-143
InCoreTeam(v, projs) == \E i \in 1..Len(projs) : v \in projs[i].core_team

Row(k, v, projs) ==
    [name |-> IF InCoreTeam(v, projs) THEN v \o <<32, 42, 42>> ELSE v,
     reviewer |-> v,
     total |-> k.total, votes |-> k.votes, ratio |-> Ratio(k),
     disagreements |-> k.disagreements, dratio |-> DRatio(k)]

\* lines 135-153: the rows appended before the first ZeroDivisionError, if any
RECURSIVE ReviewerData(_, _, _, _)
ReviewerData(order, reviewers, projs, acc) ==
    IF order = <<>> THEN [rows |-> acc, raised |-> FALSE]
    ELSE LET v == Head(order)
             k == reviewers[v]
         IN  IF Ratio(k) = ZeroDivisionError THEN [rows |-> acc, raised |-> TRUE]
             ELSE ReviewerData(Tail(order), reviewers, projs, Append(acc, Row(k, v, projs)))

(***************************************************************************)
(* Inputs: the projects of the run and the patchsets gerrit may return.    *)
(***************************************************************************)
nova == [name |-> "nova", core_team |-> {alice}]
glance == [name |-> "glance", core_team |-> {bob}]
projects == <<nova, glance>>

\* the votes gerrit records: code reviews from -2 to 2, 'Approved' and work in progress
RawValues == {"-2", "-1", "0", "1", "2"}
Votes == [type : {"CRVW"}, value : RawValues] \cup
         {[type |-> "APRV", value |-> "1"], [type |-> "Workflow", value |-> "-1"]}
\* grantedOn: from just before the cut-off on
Times == (CutOff - 1)..MaxTime
By == {[username |-> alice], [username |-> bob]}

Approval == {[type |-> v.type, value |-> v.value, by |-> b, grantedOn |-> t] :
                v \in Votes, b \in By, t \in Times}

\* a patchset without the 'approvals' key: no one has voted yet
NoVotesYet == [createdOn |-> 0]

\* utils.py:147
connect_attempts == 3

VARIABLES pc, ts, pidx, patchset, reviewers, rows, nvotes,
          attempt, connected, pages, calls

vars == <<pc, ts, pidx, patchset, reviewers, rows, nvotes,
          attempt, connected, pages, calls>>

None == [none |-> TRUE]

Init ==
    /\ pc = "get_changes"
    /\ ts = CutOff
    /\ pidx = 1
    /\ patchset = None
    /\ reviewers = <<>>
    /\ rows = <<>>
    /\ nvotes = 0
    /\ attempt = 0
    /\ connected = FALSE
    /\ pages = 0
    /\ calls = <<>>

(***************************************************************************)
(* utils.get_changes for the current project (main, line 115).             *)
(***************************************************************************)
\* lines 132-143: a fresh pickle holds the changes
CacheHit ==
    /\ pc = "get_changes"
    /\ pc' = "loop"
    /\ UNCHANGED <<ts, pidx, patchset, reviewers, rows, nvotes,
                   attempt, connected, pages, calls>>

\* line 145-148: no cached changes, enter the connection loop
CacheMiss ==
    /\ pc = "get_changes"
    /\ pc' = "connect"
    /\ attempt' = 0
    /\ UNCHANGED <<ts, pidx, patchset, reviewers, rows, nvotes, connected, pages, calls>>

\* lines 149-153: client.connect; on success the for loop is left (line 165)
Connect ==
    /\ pc = "connect"
    /\ \E ok \in BOOLEAN :
          /\ connected' = ok
          /\ pc' = IF ok THEN "query" ELSE "connect_no_agent"
    /\ UNCHANGED <<ts, pidx, patchset, reviewers, rows, nvotes, attempt, pages, calls>>

\* lines 154-163: the fallback connect; on failure line 160 decides to re-raise
ConnectNoAgent ==
    /\ pc = "connect_no_agent"
    /\ \E ok \in BOOLEAN :
          /\ connected' = ok
          /\ IF ok THEN /\ pc' = "query"
                        /\ attempt' = attempt
             ELSE IF attempt = connect_attempts + 1
                  THEN /\ pc' = "SSHException"
                       /\ attempt' = attempt
                  ELSE /\ attempt' = attempt + 1
                       /\ pc' = IF attempt + 1 < connect_attempts THEN "connect"
                                ELSE "query"
    /\ UNCHANGED <<ts, pidx, patchset, reviewers, rows, nvotes, pages, calls>>

\* lines 167-179: exec_command and the rowCount test; an unconnected client fails
\* the command
Query ==
    /\ pc = "query"
    /\ IF ~connected
       THEN /\ pc' = "exec_unconnected"
            /\ UNCHANGED <<attempt, connected, pages>>
       ELSE \E last \in BOOLEAN :
               IF last THEN /\ pc' = "loop"
                            /\ attempt' = 0
                            /\ connected' = FALSE
                            /\ pages' = 0
               ELSE /\ pages < MaxPages
                    /\ pc' = "connect"
                    /\ attempt' = 0
                    /\ pages' = pages + 1
                    /\ UNCHANGED connected
    /\ UNCHANGED <<ts, pidx, patchset, reviewers, rows, nvotes, calls>>

(***************************************************************************)
(* main, lines 114-118.                                                    *)
(***************************************************************************)
\* lines 117-118: the loop binds the next patchset of the current project's changes,
\* with approvals drawn from A, and calls process_patchset(project, patchset, reviewers, ts)
ProcessPatchsetOf(A) ==
    /\ pc = "loop"
    /\ nvotes < MaxVotes
    /\ \/ /\ patchset' = NoVotesYet
          /\ nvotes' = nvotes
       \/ \E k \in 0..(MaxVotes - nvotes) : \E a \in [1..k -> A] :
             /\ patchset' = [createdOn |-> 0, approvals |-> a]
             /\ nvotes' = nvotes + k
    /\ LET res == process_patchset(projects[pidx], patchset', reviewers, ts)
       IN  /\ reviewers' = res.reviewers
           /\ pc' = IF res.raised THEN "KeyError" ELSE "loop"
    /\ UNCHANGED <<ts, pidx, rows, attempt, connected, pages, calls>>

ProcessPatchset == ProcessPatchsetOf(Approval)

\* line 114: the changes of the current project are exhausted
NextProject ==
    /\ pc = "loop"
    /\ pidx' = pidx + 1
    /\ pc' = IF pidx + 1 <= Len(projects) THEN "get_changes" ELSE "report"
    /\ patchset' = None
    /\ UNCHANGED <<ts, reviewers, rows, nvotes, attempt, connected, pages, calls>>

\* lines 120-153: filter, sort and build reviewer_data
Report ==
    /\ pc = "report"
    /\ \E order \in Sorted(reviewers) :
          LET res == ReviewerData(order, reviewers, projects, <<>>)
          IN  /\ rows' = res.rows
              /\ pc' = IF res.raised THEN "ZeroDivisionError" ELSE "done"
    /\ UNCHANGED <<ts, pidx, patchset, reviewers, nvotes, attempt, connected, pages, calls>>

Next ==
    \/ CacheHit
    \/ CacheMiss
    \/ Connect
    \/ ConnectNoAgent
    \/ Query
    \/ ProcessPatchset
    \/ NextProject
    \/ Report

Spec == Init /\ [][Next]_vars

(***************************************************************************)
(* The same run over the votes of the automated accounts, of accounts with *)
(* similar names and of authors without a username.                        *)
(***************************************************************************)
jenkin == <<106, 101, 110, 107, 105, 110>>
BotBy == {[username |-> alice], NoUsername, [username |-> Jenkins],
          [username |-> SmokeStack], [username |-> smokestack], [username |-> jenkin]}
BotVotes == {[type |-> "CRVW", value |-> "1"], [type |-> "CRVW", value |-> "-1"]}

BotApproval == {[type |-> v.type, value |-> v.value, by |-> b, grantedOn |-> t] :
                   v \in BotVotes, b \in BotBy, t \in Times}

ProcessBotPatchset == ProcessPatchsetOf(BotApproval)

NextBots ==
    \/ CacheHit
    \/ CacheMiss
    \/ Connect
    \/ ConnectNoAgent
    \/ Query
    \/ ProcessBotPatchset
    \/ NextProject
    \/ Report

SpecBots == Init /\ [][NextBots]_vars

(***************************************************************************)
(* The fold of main's loop (lines 114-118) over patchsets of several       *)
(* projects, with the calls made so far kept in 'calls'.                   *)
(***************************************************************************)
FoldProjects == {nova, glance}
FoldBy == {[username |-> alice], [username |-> bob]}
FoldVotes == {[type |-> "CRVW", value |-> "2"], [type |-> "CRVW", value |-> "-1"]}

FoldApproval == {[type |-> v.type, value |-> v.value, by |-> b, grantedOn |-> t] :
                    v \in FoldVotes, b \in FoldBy, t \in Times}

InitFold ==
    /\ pc = "fold"
    /\ ts = CutOff
    /\ pidx = 1
    /\ patchset = None
    /\ reviewers = <<>>
    /\ rows = <<>>
    /\ nvotes = 0
    /\ attempt = 0
    /\ connected = FALSE
    /\ pages = 0
    /\ calls = <<>>

\* lines 114-118: one more patchset, of any of the projects, is processed
FoldPatchset ==
    /\ pc = "fold"
    /\ Len(calls) < MaxCalls
    /\ \E project \in FoldProjects :
       \E k \in 0..(MaxVotes - nvotes) : \E a \in [1..k -> FoldApproval] :
          LET p == [createdOn |-> 0, approvals |-> a]
              res == process_patchset(project, p, reviewers, ts)
          IN  /\ reviewers' = res.reviewers
              /\ pc' = IF res.raised THEN "KeyError" ELSE "fold"
              /\ calls' = Append(calls, [project |-> project, patchset |-> p])
              /\ nvotes' = nvotes + k
    /\ UNCHANGED <<ts, pidx, patchset, rows, attempt, connected, pages>>

NextFold == FoldPatchset

SpecFold == InitFold /\ [][NextFold]_vars

(***************************************************************************)
(* The report (lines 120-153) applied to any reviewers mapping.            *)
(***************************************************************************)
MaxCount == 1

\* entries as setdefault creates them and as counting fills them
Entries == {[votes |-> v, total |-> v["-2"] + v["-1"] + v["1"] + v["2"], disagreements |-> d] :
               v \in [VoteKeys -> 0..MaxCount], d \in 0..MaxCount}

InitReport ==
    /\ pc = "report"
    /\ ts = CutOff
    /\ pidx = Len(projects) + 1
    /\ patchset = None
    /\ \E keys \in (SUBSET {alice, bob}) \ {{}} : reviewers \in [keys -> Entries]
    /\ rows = <<>>
    /\ nvotes = 0
    /\ attempt = 0
    /\ connected = FALSE
    /\ pages = 0
    /\ calls = <<>>

NextReport == Report

SpecReport == InitReport /\ [][NextReport]_vars

(***************************************************************************)
(* Vocabulary of the properties, computed from a patchset by counting over *)
(* its approvals rather than by the loops of process_patchset.             *)
(***************************************************************************)
Revs(p) == Approvals(p)
Idx(p) == 1..Len(Revs(p))

MaxOf(S) == IF S = {} THEN 0 ELSE CHOOSE m \in S : \A x \in S : x <= m

CoreIdx(project, p) ==
    {j \in Idx(p) : Revs(p)[j].type = "CRVW" /\ Username(Revs(p)[j]) \in project.core_team}

LatestCoreNeg(project, p) ==
    MaxOf({Revs(p)[j].grantedOn : j \in {c \in CoreIdx(project, p) : int(Revs(p)[c].value) <= 0}})

LatestCorePos(project, p) ==
    MaxOf({Revs(p)[j].grantedOn : j \in {c \in CoreIdx(project, p) : int(Revs(p)[c].value) > 0}})

\* the code reviews at or after the cut-off
Counted(p, cutoff) ==
    {i \in Idx(p) : Revs(p)[i].type = "CRVW" /\ Revs(p)[i].grantedOn >= cutoff}

CountedBy(p, cutoff, r) == {i \in Counted(p, cutoff) : Username(Revs(p)[i]) = r}

Contradicted(project, p, i) ==
    \/ Revs(p)[i].value \in {"1", "2"} /\ Revs(p)[i].grantedOn < LatestCoreNeg(project, p)
    \/ Revs(p)[i].value \in {"-1", "-2"} /\ Revs(p)[i].grantedOn < LatestCorePos(project, p)

Field(rv, r, f) == IF r \in DOMAIN rv THEN rv[r][f] ELSE 0
VotesOf(rv, r, v) == IF r \in DOMAIN rv THEN rv[r].votes[v] ELSE 0

\* the reviewers a step can concern: the keys of the mapping and the authors read
Concerned(before, after, p) ==
    DOMAIN before \cup DOMAIN after \cup {Username(Revs(p)[i]) : i \in Idx(p)}

Vote(type, value, user, t) ==
    [type |-> type, value |-> value, by |-> [username |-> user], grantedOn |-> t]
PatchSetOf(approvals) == [createdOn |-> 0, approvals |-> approvals]

\* a step that calls process_patchset, on patchset', and one whose call returns
Called == pc = "loop" /\ pc' \in {"loop", "KeyError"}
Returned == pc = "loop" /\ pc' = "loop"

\* C1: a call of process_patchset that returns adds to each reviewer's disagreements
\* exactly the number of that reviewer's counted code reviews (CRVW, grantedOn >= ts)
\* that are positive and strictly older than the latest core-team vote <= 0, or
\* negative and strictly older than the latest core-team vote > 0, the latest core
\* votes being taken over the whole patchset regardless of the cut-off.
C1_DisagreementRule ==
    [][Returned =>
        \A r \in Concerned(reviewers, reviewers', patchset') :
            Field(reviewers', r, "disagreements") - Field(reviewers, r, "disagreements")
              = Cardinality({i \in CountedBy(patchset', ts, r) :
                                Contradicted(projects[pidx], patchset', i)})]_vars

C1_Witness ==
    /\ pc = "loop"
    /\ pidx = 1
    /\ patchset = PatchSetOf(<<Vote("CRVW", "2", bob, ts), Vote("CRVW", "-2", alice, ts + 1)>>)
    /\ reviewers[bob].disagreements = 1
    /\ reviewers[alice].disagreements = 0

\* C2: approvals before the cut-off are never counted and never create an entry: a call
\* that returns creates the entries of the authors of the counted code reviews (CRVW,
\* grantedOn >= ts) and no other, and adds to each reviewer's total and votes[value]
\* exactly the number of that reviewer's counted code reviews (with that value); a call
\* that raises creates no other entry either and adds no more than that to any total.
C2_CutoffExclusion ==
    [][Called =>
        LET p == patchset'
            counted == Counted(p, ts)
            authors == {Username(Revs(p)[i]) : i \in counted}
            Mine(r) == {i \in counted : Username(Revs(p)[i]) = r}
        IN  IF Returned
            THEN /\ DOMAIN reviewers' = DOMAIN reviewers \cup authors
                 /\ \A r \in DOMAIN reviewers' :
                       /\ reviewers'[r].total - Field(reviewers, r, "total")
                             = Cardinality(Mine(r))
                       /\ \A v \in VoteKeys :
                             reviewers'[r].votes[v] - VotesOf(reviewers, r, v)
                                = Cardinality({i \in Mine(r) : Revs(p)[i].value = v})
            ELSE /\ DOMAIN reviewers \subseteq DOMAIN reviewers'
                 /\ DOMAIN reviewers' \subseteq DOMAIN reviewers \cup authors
                 /\ \A r \in DOMAIN reviewers' :
                       /\ reviewers'[r].total - Field(reviewers, r, "total")
                             <= Cardinality(Mine(r))
                       /\ \A v \in VoteKeys :
                             reviewers'[r].votes[v] - VotesOf(reviewers, r, v)
                                <= Cardinality({i \in Mine(r) : Revs(p)[i].value = v})]_vars

\* of bob's two code reviews only the one at the cut-off was counted
C2_Witness ==
    /\ pc = "loop"
    /\ patchset = PatchSetOf(<<Vote("CRVW", "1", bob, ts - 1), Vote("CRVW", "-1", bob, ts)>>)
    /\ reviewers[bob].total = 1
    /\ reviewers[bob].votes["-1"] = 1
    /\ reviewers[bob].votes["1"] = 0

\* the patchset without its approvals of a type other than CRVW
RECURSIVE OnlyCRVW(_)
OnlyCRVW(approvals) ==
    IF approvals = <<>> THEN <<>>
    ELSE IF Head(approvals).type = "CRVW"
         THEN <<Head(approvals)>> \o OnlyCRVW(Tail(approvals))
         ELSE OnlyCRVW(Tail(approvals))

\* C3: the outcome of a call (the reviewers mapping and whether it returns) is the
\* outcome of the same call on the patchset without its non-CRVW approvals, so adding,
\* removing or changing APRV or Workflow approvals, by whomever and whenever, changes
\* nothing.
C3_TypeFiltering ==
    [][Called =>
        LET crvw == [createdOn |-> 0, approvals |-> OnlyCRVW(Revs(patchset'))]
            res == process_patchset(projects[pidx], crvw, reviewers, ts)
        IN  /\ reviewers' = res.reviewers
            /\ (pc' = "KeyError") = res.raised]_vars

\* bob's +2 was followed by a later Workflow -1 of the core reviewer alice
C3_Witness ==
    /\ pc = "loop"
    /\ pidx = 1
    /\ patchset = PatchSetOf(<<Vote("CRVW", "2", bob, ts), Vote("Workflow", "-1", alice, ts + 1)>>)
    /\ DOMAIN reviewers = {bob}
    /\ reviewers[bob].total = 1
    /\ reviewers[bob].disagreements = 0

\* the approvals without the counted code reviews whose value is no vote key
RECURSIVE KnownValues(_, _)
KnownValues(approvals, cutoff) ==
    IF approvals = <<>> THEN <<>>
    ELSE LET review == Head(approvals)
         IN  IF review.type = "CRVW" /\ review.grantedOn >= cutoff
                 /\ review.value \notin VoteKeys
             THEN KnownValues(Tail(approvals), cutoff)
             ELSE <<review>> \o KnownValues(Tail(approvals), cutoff)

\* C5: process_patchset completes without error, and a counted code review whose value
\* is outside {-2,-1,1,2} changes no reviewer's votes, total or disagreements: the
\* mapping is the one the other approvals alone produce, and no entry is created for it.
C5_UnknownValueIgnored ==
    [][Called =>
        /\ pc' = "loop"
        /\ LET project == projects[pidx]
               core == CoreVotes(project, Revs(patchset'), [neg |-> 0, pos |-> 0])
           IN  reviewers' =
                  Tally(KnownValues(Revs(patchset'), ts), reviewers, core, ts).reviewers]_vars

SumVotes(k) == k.votes["-2"] + k.votes["-1"] + k.votes["1"] + k.votes["2"]

\* C8: as long as no call of process_patchset has raised, every entry of the mapping has
\* total = votes[-2] + votes[-1] + votes[1] + votes[2], total >= 1 and
\* 0 <= disagreements <= total; so the report never divides by plus + minus = 0.
C8_EntryInvariant ==
    /\ pc # "KeyError" =>
          \A r \in DOMAIN reviewers :
             /\ reviewers[r].total = SumVotes(reviewers[r])
             /\ reviewers[r].total >= 1
             /\ reviewers[r].disagreements >= 0
             /\ reviewers[r].disagreements <= reviewers[r].total
    /\ pc # "ZeroDivisionError"

C8_Witness ==
    /\ pc = "done"
    /\ \E r \in DOMAIN reviewers :
          reviewers[r].total = 2 /\ reviewers[r].disagreements = 1

\* a later core-team code review of the opposite polarity
Overruled(project, p, i, cutoff) ==
    \E j \in CoreIdx(project, p) :
       /\ Revs(p)[j].grantedOn > Revs(p)[i].grantedOn
       /\ Revs(p)[j].grantedOn >= cutoff
       /\ \/ int(Revs(p)[i].value) > 0 /\ int(Revs(p)[j].value) <= 0
          \/ int(Revs(p)[i].value) < 0 /\ int(Revs(p)[j].value) > 0

\* C9: a call adds to a reviewer's disagreements at most the number of that reviewer's
\* counted code reviews for which the patchset holds a core-team code review of the
\* opposite polarity with a strictly greater grantedOn, which is then at or after the
\* cut-off; if every core-team code review of the patchset is before the cut-off, the
\* call adds no disagreement to any reviewer.
C9_CoreBeforeCutoff ==
    [][Called =>
        LET project == projects[pidx]
        IN  /\ \A r \in Concerned(reviewers, reviewers', patchset') :
                  Field(reviewers', r, "disagreements") - Field(reviewers, r, "disagreements")
                     <= Cardinality({i \in CountedBy(patchset', ts, r) :
                                        Overruled(project, patchset', i, ts)})
            /\ (\A j \in CoreIdx(project, patchset') : Revs(patchset')[j].grantedOn < ts) =>
                  \A r \in Concerned(reviewers, reviewers', patchset') :
                     Field(reviewers', r, "disagreements")
                        = Field(reviewers, r, "disagreements")]_vars

\* the core reviewer's -2 came before the cut-off and before bob's counted +2
C9_Witness ==
    /\ pc = "loop"
    /\ pidx = 1
    /\ patchset = PatchSetOf(<<Vote("CRVW", "-2", alice, ts - 1), Vote("CRVW", "2", bob, ts)>>)
    /\ reviewers[bob].total = 1
    /\ reviewers[bob].disagreements = 0

\* C10: the query is executed only on a client some connect call has connected; when
\* every connection attempt has failed the SSHException is raised instead.
C10_ReraiseAfterLastAttempt ==
    /\ pc \in {"query", "exec_unconnected"} => connected
    /\ (pc # "connect" /\ pc # "connect_no_agent" /\ attempt = connect_attempts)
          => pc = "SSHException"

\* the quotient is 0.0
RatioIsZero(q) == q # ZeroDivisionError /\ q.num = 0

SameLetter(c, d) ==
    \/ c = d
    \/ c \in 65..90 /\ d = c + 32
    \/ d \in 65..90 /\ c = d + 32

EqualsIgnoreCase(a, b) ==
    Len(a) = Len(b) /\ \A i \in 1..Len(a) : SameLetter(a[i], b[i])

IsBot(k) == EqualsIgnoreCase(k, jenkins) \/ EqualsIgnoreCase(k, smokestack)

\* C7: in the finished report no row is keyed by a name equal to "jenkins" or
\* "smokestack" up to case, and every other key of the mapping has exactly one row.
C7_ExclusionList ==
    pc = "done" =>
       /\ \A i \in 1..Len(rows) : ~IsBot(rows[i].reviewer)
       /\ \A k \in DOMAIN reviewers :
             ~IsBot(k) => Cardinality({i \in 1..Len(rows) : rows[i].reviewer = k}) = 1

\* a case variant of an excluded name and a name that only resembles one were counted
C7_Witness ==
    /\ pc = "done"
    /\ DOMAIN reviewers = {SmokeStack, jenkin}
    /\ reviewers[SmokeStack].total = 1
    /\ Len(rows) = 1
    /\ rows[1].reviewer = jenkin

\* the reviewer-keyed merge of two mappings, summing the counts
Merge(a, b) ==
    [r \in DOMAIN a \cup DOMAIN b |->
        [votes |-> [v \in VoteKeys |-> VotesOf(a, r, v) + VotesOf(b, r, v)],
         total |-> Field(a, r, "total") + Field(b, r, "total"),
         disagreements |-> Field(a, r, "disagreements") + Field(b, r, "disagreements")]]

\* main's loop over a list of calls, from the given mapping
RECURSIVE FoldOver(_, _, _)
FoldOver(cs, acc, cutoff) ==
    IF cs = <<>> THEN acc
    ELSE FoldOver(Tail(cs),
                  process_patchset(Head(cs).project, Head(cs).patchset, acc, cutoff).reviewers,
                  cutoff)

\* the calls at the positions of S, in the order given by the permutation o
Pick(cs, o, S) ==
    LET RECURSIVE Go(_)
        Go(i) == IF i > Len(cs) THEN <<>>
                 ELSE IF o[i] \in S THEN <<cs[o[i]]>> \o Go(i + 1) ELSE Go(i + 1)
    IN  Go(1)

Orders(n) == {o \in [1..n -> 1..n] : \A i, j \in 1..n : i # j => o[i] # o[j]}

====
